---- MODULE Spec2Model ----
(***************************************************************************)
(* Model of the HPO similarity scoring engine: the ICSimilarity class of   *)
(* src/src/similarity.py (term tallies, subtree counts, information        *)
(* content, maxIC) and the scoring and permutation test of                 *)
(* src/hpo_similarity.py (geomean, get_score_for_pair,                     *)
(* get_proband_similarity, test_similarity).                               *)
(*                                                                         *)
(* Numbers.  Information content is -ln(count/total).  It is kept in       *)
(* fixed point, in hundredths of a nat: ln is additive over the prime      *)
(* factors of its argument, so that equal ratios give equal values, as     *)
(* they do for the floats of the code.  The geometric mean is the integer  *)
(* n-th root of the product.                                               *)
(***************************************************************************)
EXTENDS Integers, Sequences, FiniteSets, TLC

VARIABLES
    hpo_counts,     \* [instance -> (term -> count)]   self.hpo_counts
    total_freq,     \* [instance -> Nat]               self.total_freq
    counts_cache,   \* term -> count                   ICSimilarity.counts_cache (class attribute)
    ic_cache,       \* term -> information content     ICSimilarity.ic_cache (class attribute)
    family_hpo,     \* proband id -> list of terms     the population
    pc,             \* where the run is
    ret,            \* what the last call returned or raised
    probands,       \* test_similarity: the observed proband ids
    hpo_terms,      \* test_similarity: the observed term lists
    other_probands, \* test_similarity: the candidate pool
    observed,       \* test_similarity: the observed score
    n_sims,         \* test_similarity: the number of simulations
    sampled,        \* test_similarity: the group drawn in the last iteration
    distribution,   \* test_similarity: the simulated scores
    probands_by_gene, \* gene id -> list of proband ids   the variants of the run
    genes,          \* analyse_genes: the genes the loop has yet to visit
    output          \* analyse_genes: the lines written to the output file

vars == <<hpo_counts, total_freq, counts_cache, ic_cache, family_hpo, pc, ret,
          probands, hpo_terms, other_probands, observed, n_sims, sampled,
          distribution, probands_by_gene, genes, output>>

(***************************************************************************)
(* Bounds                                                                  *)
(***************************************************************************)
\* add_hpo is not called once an instance's total_freq has reached this
MaxTotal == 4

\* the largest number of observed proband ids given to test_similarity
MaxGroup == 3

\* the largest n_sims given to test_similarity
MaxSims == 2

\* where the simulated scores are drawn freely: the longest distribution
MaxLen == 4

\* where the scores are drawn freely: they range over 0..MaxScore
MaxScore == 3

(***************************************************************************)
(* The ontology graph: a rooted DAG, edges from a term to its subterms.    *)
(***************************************************************************)
Root == "HP:0000001"

GraphTerms == {Root, "HP:A", "HP:B", "HP:C"}

\* a term that is on no node of the graph (an obsolete code)
Obsolete == "HP:X"

Terms == GraphTerms \cup {Obsolete}

Successors ==
    [t \in GraphTerms |->
        CASE t = Root   -> {"HP:A", "HP:B"}
          [] t = "HP:A" -> {"HP:C"}
          [] t = "HP:B" -> {"HP:C"}
          [] OTHER      -> {}]

has_node(term) == term \in GraphTerms

RECURSIVE descendants(_)
descendants(t) == Successors[t] \cup UNION {descendants(c) : c \in Successors[t]}

ancestors(t) == {s \in GraphTerms : t \in descendants(s)}

\* self.descendant_cache memoizes a function of the immutable graph
get_subterms(top_term) == descendants(top_term)

\* self.ancestor_cache memoizes a function of the immutable graph
get_ancestors(bottom_term) == ancestors(bottom_term) \cup {bottom_term}

find_common_ancestors(term_1, term_2) ==
    IF ~has_node(term_1) \/ ~has_node(term_2)
    THEN {}
    ELSE get_ancestors(term_1) \cap get_ancestors(term_2)

(***************************************************************************)
(* Helpers                                                                 *)
(***************************************************************************)
RECURSIVE SumSeq(_)
SumSeq(s) == IF s = <<>> THEN 0 ELSE Head(s) + SumSeq(Tail(s))

RECURSIVE SumCounts(_, _)
SumCounts(counts, S) ==
    IF S = {} THEN 0
    ELSE LET t == CHOOSE x \in S : TRUE
         IN  counts[t] + SumCounts(counts, S \ {t})

MaxOf(s) == CHOOSE m \in {s[k] : k \in DOMAIN s} : \A k \in DOMAIN s : s[k] =< m

RemoveAt(s, pos) == SubSeq(s, 1, pos - 1) \o SubSeq(s, pos + 1, Len(s))

\* the orders in which a set can be iterated
RECURSIVE Listings(_)
Listings(S) ==
    IF S = {} THEN {<<>>}
    ELSE UNION {{<<x>> \o rest : rest \in Listings(S \ {x})} : x \in S}


(***************************************************************************)
(* Fixed-point logarithm, in hundredths                                    *)
(***************************************************************************)
LnPrime(p) ==
    CASE p = 2 -> 69 [] p = 3 -> 110 [] p = 5 -> 161 [] p = 7 -> 195
      [] p = 11 -> 240 [] p = 13 -> 256 [] OTHER -> 283

RECURSIVE Ln(_)
Ln(n) ==
    IF n = 1 THEN 0
    ELSE LET p == CHOOSE q \in 2..n : n % q = 0 /\ \A r \in 2..(q - 1) : n % r # 0
         IN  LnPrime(p) + Ln(n \div p)

\* -math.log(term_count/total_freq) for term_count > 0 and total_freq > 0
NegLog(term_count, freq) == Ln(freq) - Ln(term_count)

(***************************************************************************)
(* CalculateSimilarity.add_hpo                                             *)
(***************************************************************************)
\* self is [hpo_counts, total_freq]; the result is self after the call
add_hpo(self, term) ==
    IF term \notin DOMAIN self.hpo_counts
    THEN IF ~has_node(term)
         THEN self
         ELSE [hpo_counts |-> (term :> 0 + 1) @@ self.hpo_counts,
               total_freq |-> self.total_freq + 1]
    ELSE [hpo_counts |-> self.hpo_counts,
          total_freq |-> self.total_freq + 1]

(***************************************************************************)
(* Outcomes.  A call on an instance reads and fills the two class-level    *)
(* caches; it returns a value or raises.  An outcome carries the caches    *)
(* as the call leaves them, the value, and the exception ("none" when the  *)
(* call returned).                                                         *)
(***************************************************************************)
Out(cc, ic, val, exc) == [counts_cache |-> cc, ic_cache |-> ic, val |-> val, exc |-> exc]

Caches == Out(counts_cache, ic_cache, 0, "none")

(***************************************************************************)
(* ICSimilarity.get_term_count                                             *)
(***************************************************************************)
\* get_term_count without the loop over the descendants
get_term_count_of_term(i, st, term) ==
    IF term \notin DOMAIN st.counts_cache
    THEN IF ~has_node(term)
         THEN Out(st.counts_cache, st.ic_cache, 0, "none")
         ELSE LET count == IF term \in DOMAIN hpo_counts[i] THEN hpo_counts[i][term] ELSE 0
              IN  Out((term :> count) @@ st.counts_cache, st.ic_cache, count, "none")
    ELSE Out(st.counts_cache, st.ic_cache, st.counts_cache[term], "none")

get_term_count(i, st, term) ==
    IF term \notin DOMAIN st.counts_cache
    THEN IF ~has_node(term)
         THEN Out(st.counts_cache, st.ic_cache, 0, "none")
         ELSE LET used  == (get_subterms(term) \cup {term}) \cap DOMAIN hpo_counts[i]
                  count == SumCounts(hpo_counts[i], used)
              IN  Out((term :> count) @@ st.counts_cache, st.ic_cache, count, "none")
    ELSE Out(st.counts_cache, st.ic_cache, st.counts_cache[term], "none")

(***************************************************************************)
(* ICSimilarity.calculate_information_content                              *)
(***************************************************************************)
calculate_information_content(i, st, term) ==
    IF term \notin DOMAIN st.ic_cache
    THEN LET tc == get_term_count(i, st, term)
         IN  IF ~has_node(term)
             THEN Out(tc.counts_cache, tc.ic_cache, 0, "none")
             ELSE IF total_freq[i] = 0
             THEN Out(tc.counts_cache, tc.ic_cache, 0, "ZeroDivisionError")
             ELSE IF tc.val = 0
             THEN Out(tc.counts_cache, tc.ic_cache, 0, "ValueError")
             ELSE LET ic == NegLog(tc.val, total_freq[i])
                  IN  Out(tc.counts_cache, (term :> ic) @@ tc.ic_cache, ic, "none")
    ELSE Out(st.counts_cache, st.ic_cache, st.ic_cache[term], "none")

(***************************************************************************)
(* ICSimilarity.get_max_ic.  The loop runs over a Python set, whose order  *)
(* of iteration is not fixed: a call has a set of possible outcomes, one   *)
(* for each order.  The order shows only when a visit raises (the caches   *)
(* hold what was visited before); otherwise one order stands for all.      *)
(***************************************************************************)
RECURSIVE max_ic_loop(_, _, _, _)
max_ic_loop(i, st, todo, ic_values) ==
    IF todo = <<>>
    THEN Out(st.counts_cache, st.ic_cache, ic_values, "none")
    ELSE LET r == calculate_information_content(i, st, Head(todo))
         IN  IF r.exc # "none"
             THEN r
             ELSE max_ic_loop(i, r, Tail(todo), Append(ic_values, r.val))

IterationOrders(i, st, S) ==
    IF \A t \in S : calculate_information_content(i, st, t).exc = "none"
    THEN {CHOOSE o \in Listings(S) : TRUE}
    ELSE Listings(S)

\* max(ic_values): raises ValueError on the empty list
max_ic_values(r) ==
    IF r.exc # "none"
    THEN r
    ELSE IF r.val = <<>>
    THEN Out(r.counts_cache, r.ic_cache, 0, "ValueError")
    ELSE Out(r.counts_cache, r.ic_cache, MaxOf(r.val), "none")

get_max_ic(i, st, term_1, term_2) ==
    LET ancestors_ == find_common_ancestors(term_1, term_2)
    IN  {max_ic_values(max_ic_loop(i, st, ord, <<>>)) :
            ord \in IterationOrders(i, st, ancestors_)}

(***************************************************************************)
(* geomean (src/hpo_similarity.py)                                         *)
(***************************************************************************)
RECURSIVE Product(_)
Product(s) == IF s = <<>> THEN 1 ELSE Head(s) * Product(Tail(s))

RECURSIVE Pow(_, _)
Pow(b, e) == IF e = 0 THEN 1 ELSE b * Pow(b, e - 1)

\* the integer n-th root of the product of positive values
IRoot(values) ==
    CHOOSE g \in 0..MaxOf(values) :
        /\ Pow(g, Len(values)) =< Product(values)
        /\ Pow(g + 1, Len(values)) > Product(values)

\* [val, exc]: math.log10 raises on a value that is zero or less; the mean of
\* an empty list divides by zero
geomean(values) ==
    IF \E k \in DOMAIN values : values[k] =< 0
    THEN [val |-> 0, exc |-> "ValueError"]
    ELSE IF Len(values) = 0
    THEN [val |-> 0, exc |-> "ZeroDivisionError"]
    ELSE [val |-> IRoot(values), exc |-> "none"]

(***************************************************************************)
(* get_score_for_pair (src/hpo_similarity.py)                              *)
(***************************************************************************)
\* k counts the iterations of the two nested loops done so far
RECURSIVE score_loop(_, _, _, _, _, _)
score_loop(i, st, proband_1, proband_2, k, ic) ==
    IF k = Len(proband_1) * Len(proband_2)
    THEN {Out(st.counts_cache, st.ic_cache, ic, "none")}
    ELSE LET term_1 == proband_1[(k \div Len(proband_2)) + 1]
             term_2 == proband_2[(k % Len(proband_2)) + 1]
         IN  UNION {IF r.exc # "none"
                    THEN {r}
                    ELSE score_loop(i, r, proband_1, proband_2, k + 1, Append(ic, r.val)) :
                    r \in get_max_ic(i, st, term_1, term_2)}

geomean_of(r) ==
    IF r.exc # "none"
    THEN r
    ELSE LET g == geomean(r.val)
         IN  Out(r.counts_cache, r.ic_cache, g.val, g.exc)

get_score_for_pair(i, st, proband_1, proband_2) ==
    {geomean_of(r) : r \in score_loop(i, st, proband_1, proband_2, 0, <<>>)}

(***************************************************************************)
(* get_proband_similarity (src/hpo_similarity.py)                          *)
(***************************************************************************)
\* k counts the scores appended so far: each pos is scored against the
\* Len(terms) - 1 entries of others
RECURSIVE similarity_loop(_, _, _, _, _)
similarity_loop(i, st, terms, k, ic_scores) ==
    IF Len(terms) = 0 \/ k = Len(terms) * (Len(terms) - 1)
    THEN {Out(st.counts_cache, st.ic_cache, ic_scores, "none")}
    ELSE LET pos     == (k \div (Len(terms) - 1)) + 1
             proband == terms[pos]
             others  == RemoveAt(terms, pos)
             other   == others[(k % (Len(terms) - 1)) + 1]
         IN  UNION {IF r.exc # "none"
                    THEN {r}
                    ELSE similarity_loop(i, r, terms, k + 1, Append(ic_scores, r.val)) :
                    r \in get_score_for_pair(i, st, proband, other)}

sum_of(r) ==
    IF r.exc # "none"
    THEN r
    ELSE Out(r.counts_cache, r.ic_cache, SumSeq(r.val), "none")

get_proband_similarity(i, st, terms) ==
    {sum_of(r) : r \in similarity_loop(i, st, terms, 0, <<>>)}

(***************************************************************************)
(* get_proband_similarity (src/hpo_similarity/get_scores.py), with the     *)
(* pair score of src/hpo_similarity.py.  x and y are the loop indices,     *)
(* from 1.                                                                 *)
(***************************************************************************)
RECURSIVE get_scores_loop(_, _, _, _, _, _)
get_scores_loop(i, st, terms, x, y, ic_scores) ==
    IF x > Len(terms)
    THEN {Out(st.counts_cache, st.ic_cache, ic_scores, "none")}
    ELSE IF y > Len(terms)
    THEN get_scores_loop(i, st, terms, x + 1, x + 1, ic_scores)
    ELSE IF x = y
    THEN get_scores_loop(i, st, terms, x, y + 1, ic_scores)
    ELSE UNION {IF r.exc # "none"
                THEN {r}
                ELSE get_scores_loop(i, r, terms, x, y + 1, Append(ic_scores, r.val)) :
                r \in get_score_for_pair(i, st, terms[x], terms[y])}

get_scores_get_proband_similarity(i, st, terms) ==
    {sum_of(r) : r \in get_scores_loop(i, st, terms, 1, 1, <<>>)}

(***************************************************************************)
(* State                                                                   *)
(***************************************************************************)
\* the ICSimilarity instances: 1 is the matcher of a run, 2 a second one
Inst == {1, 2}

EmptyMap == [t \in {} |-> 0]

\* kind is "value" (val was returned), "None" (None was returned) or "raise"
\* (exc was raised)
NoCall == [op |-> "none", inst |-> 0, args |-> <<>>, kind |-> "none", val |-> 0, exc |-> "none"]

Returned(op, i, args, r) ==
    [op |-> op, inst |-> i, args |-> args,
     kind |-> IF r.exc = "none" THEN "value" ELSE "raise", val |-> r.val, exc |-> r.exc]

test_vars == <<probands, hpo_terms, other_probands, observed, n_sims, sampled, distribution>>

gene_vars == <<probands_by_gene, genes, output>>

\* CalculateSimilarity.__init__ and the class body of ICSimilarity
InitInstances ==
    /\ hpo_counts = [i \in Inst |-> EmptyMap]
    /\ total_freq = [i \in Inst |-> 0]
    /\ counts_cache = EmptyMap
    /\ ic_cache = EmptyMap

\* before analyse_genes is called; a run without variants has no genes
InitAnalysis ==
    /\ probands_by_gene = EmptyMap
    /\ genes = <<>>
    /\ output = <<>>

InitTest ==
    /\ probands = <<>>
    /\ hpo_terms = <<>>
    /\ other_probands = {}
    /\ observed = 0
    /\ n_sims = 0
    /\ sampled = <<>>
    /\ distribution = <<>>

(***************************************************************************)
(* Calls on an instance.  A call that raises leaves the caches as they     *)
(* were when it raised.                                                    *)
(***************************************************************************)
Tally(i, term) ==
    /\ total_freq[i] < MaxTotal
    /\ LET self == add_hpo([hpo_counts |-> hpo_counts[i], total_freq |-> total_freq[i]], term)
       IN  /\ hpo_counts' = [hpo_counts EXCEPT ![i] = self.hpo_counts]
           /\ total_freq' = [total_freq EXCEPT ![i] = self.total_freq]
    /\ ret' = NoCall
    /\ UNCHANGED <<counts_cache, ic_cache, family_hpo>>
    /\ UNCHANGED test_vars
    /\ UNCHANGED gene_vars

Call_add_hpo(i, term) ==
    /\ Tally(i, term)
    /\ UNCHANGED pc

Finish(op, i, args, r) ==
    /\ counts_cache' = r.counts_cache
    /\ ic_cache' = r.ic_cache
    /\ ret' = Returned(op, i, args, r)
    /\ UNCHANGED <<hpo_counts, total_freq, family_hpo>>
    /\ UNCHANGED test_vars
    /\ UNCHANGED gene_vars

Call_get_term_count(i, term) ==
    /\ Finish("get_term_count", i, <<term>>, get_term_count(i, Caches, term))
    /\ UNCHANGED pc

Call_calculate_information_content(i, term) ==
    /\ Finish("calculate_information_content", i, <<term>>,
              calculate_information_content(i, Caches, term))
    /\ UNCHANGED pc

Call_get_max_ic(i, term_1, term_2) ==
    /\ \E r \in get_max_ic(i, Caches, term_1, term_2) :
          Finish("get_max_ic", i, <<term_1, term_2>>, r)
    /\ UNCHANGED pc

Call_get_score_for_pair(i, proband_1, proband_2) ==
    /\ \E r \in get_score_for_pair(i, Caches, proband_1, proband_2) :
          Finish("get_score_for_pair", i, <<proband_1, proband_2>>, r)
    /\ UNCHANGED pc

(***************************************************************************)
(* SpecAPI: one instance, tallies and queries in any order                 *)
(***************************************************************************)
InitAPI ==
    /\ InitInstances
    /\ InitTest
    /\ InitAnalysis
    /\ family_hpo = EmptyMap
    /\ pc = "api"
    /\ ret = NoCall

NextAPI ==
    \/ \E term \in Terms : Call_add_hpo(1, term)
    \/ \E term \in Terms : Call_calculate_information_content(1, term)

SpecAPI == InitAPI /\ [][NextAPI]_vars

(***************************************************************************)
(* SpecCache: one instance, tallies and queries in any order; pc is        *)
(* "build" while only tallies were made, "query" once a query was made,    *)
(* and "late" once a tally has followed a query                            *)
(***************************************************************************)
InitCache ==
    /\ InitInstances
    /\ InitTest
    /\ InitAnalysis
    /\ family_hpo = EmptyMap
    /\ pc = "build"
    /\ ret = NoCall

Cache_tally(term) ==
    /\ Tally(1, term)
    /\ pc' = IF pc = "build" THEN "build" ELSE "late"

Cache_query(term) ==
    /\ Finish("calculate_information_content", 1, <<term>>,
              calculate_information_content(1, Caches, term))
    /\ pc' = IF pc = "build" THEN "query" ELSE pc

NextCache ==
    \/ \E term \in Terms : Cache_tally(term)
    \/ \E term \in Terms : Cache_query(term)

SpecCache == InitCache /\ [][NextCache]_vars

(***************************************************************************)
(* SpecShared: two instances over the same graph, each tallied from its    *)
(* own population (the build phase), then queried in any interleaving      *)
(***************************************************************************)
InitShared ==
    /\ InitInstances
    /\ InitTest
    /\ InitAnalysis
    /\ family_hpo = EmptyMap
    /\ pc = "build"
    /\ ret = NoCall

Shared_tally(i, term) ==
    /\ pc = "build"
    /\ Call_add_hpo(i, term)

Shared_query(i, term) ==
    /\ Finish("calculate_information_content", i, <<term>>,
              calculate_information_content(i, Caches, term))
    /\ pc' = "query"

NextShared ==
    \/ \E i \in Inst, term \in Terms : Shared_tally(i, term)
    \/ \E i \in Inst, term \in Terms : Shared_query(i, term)

SpecShared == InitShared /\ [][NextShared]_vars

(***************************************************************************)
(* Populations: proband id -> list of HPO terms (get_child_hpo)            *)
(***************************************************************************)
\* an id that no population holds
Missing == "p9"

Populations ==
    { \* terms shared by several probands
      [x \in {"p1", "p2", "p3", "p4"} |->
          CASE x = "p1" -> <<"HP:A">> [] x = "p2" -> <<"HP:A">>
            [] x = "p3" -> <<"HP:B">> [] OTHER    -> <<"HP:C">>],
      \* every term used once
      [x \in {"p1", "p2", "p3"} |->
          CASE x = "p1" -> <<"HP:A">> [] x = "p2" -> <<"HP:B">>
            [] OTHER    -> <<"HP:C", Root>>],
      \* a proband with an obsolete term
      [x \in {"p1", "p2", "p3", "p4"} |->
          CASE x = "p1" -> <<"HP:A", Obsolete>> [] x = "p2" -> <<"HP:A">>
            [] x = "p3" -> <<"HP:C">>           [] OTHER    -> <<"HP:A", "HP:C">>],
      \* terms of the graph that no proband uses
      [x \in {"p1", "p2", "p3"} |->
          CASE x = "p1" -> <<"HP:A">> [] x = "p2" -> <<"HP:A">>
            [] OTHER    -> <<Root>>] }

ProbandIds == {"p1", "p2", "p3", "p4", Missing}

Range(s) == {s[k] : k \in DOMAIN s}

(***************************************************************************)
(* CalculateSimilarity.tally_hpo_terms                                     *)
(***************************************************************************)
RECURSIVE tally_terms(_, _)
tally_terms(self, child_terms) ==
    IF child_terms = <<>> THEN self
    ELSE tally_terms(add_hpo(self, Head(child_terms)), Tail(child_terms))

RECURSIVE tally_hpo_terms(_, _, _)
tally_hpo_terms(self, terms_of, items) ==
    IF items = {} THEN self
    ELSE LET item == CHOOSE x \in items : TRUE
         IN  tally_hpo_terms(tally_terms(self, terms_of[item]), terms_of, items \ {item})

\* main: matcher = ICSimilarity(...); matcher.tally_hpo_terms(family_hpo_terms)
main_tally ==
    /\ pc = "main"
    /\ LET self == tally_hpo_terms([hpo_counts |-> hpo_counts[1], total_freq |-> total_freq[1]],
                                   family_hpo, DOMAIN family_hpo)
       IN  /\ hpo_counts' = [hpo_counts EXCEPT ![1] = self.hpo_counts]
           /\ total_freq' = [total_freq EXCEPT ![1] = self.total_freq]
    /\ pc' = "ready"
    /\ UNCHANGED <<counts_cache, ic_cache, family_hpo, ret>>
    /\ UNCHANGED test_vars
    /\ UNCHANGED gene_vars

InitMain ==
    /\ InitInstances
    /\ InitTest
    /\ InitAnalysis
    /\ family_hpo \in Populations
    /\ pc = "main"
    /\ ret = NoCall

(***************************************************************************)
(* SpecQuery: a run that tallies the population, then queries the matcher  *)
(***************************************************************************)
NextQuery ==
    \/ main_tally
    \/ \E term \in Terms :
          pc = "ready" /\ Call_get_term_count(1, term)
    \/ \E term \in Terms :
          pc = "ready" /\ Call_calculate_information_content(1, term)
    \/ \E term_1, term_2 \in Terms :
          pc = "ready" /\ Call_get_max_ic(1, term_1, term_2)
    \/ \E proband_1, proband_2 \in Range(family_hpo) :
          pc = "ready" /\ Call_get_score_for_pair(1, proband_1, proband_2)

SpecQuery == InitMain /\ [][NextQuery]_vars

(***************************************************************************)
(* test_similarity (src/hpo_similarity.py), in three steps: the call up to *)
(* the observed score, one iteration of the simulation loop, and the rank. *)
(***************************************************************************)
\* sorted(distribution)
RECURSIVE insert(_, _)
insert(s, x) ==
    IF s = <<>> THEN <<x>>
    ELSE IF x < Head(s) THEN <<x>> \o s
    ELSE <<Head(s)>> \o insert(Tail(s), x)

RECURSIVE sorted(_)
sorted(s) == IF s = <<>> THEN <<>> ELSE insert(sorted(Tail(s)), Head(s))

\* bisect.bisect_left(a, x): a is 1-indexed here, lo and hi are Python's
RECURSIVE bisect_loop(_, _, _, _)
bisect_loop(a, x, lo, hi) ==
    IF lo < hi
    THEN LET mid == (lo + hi) \div 2
         IN  IF a[mid + 1] < x
             THEN bisect_loop(a, x, mid + 1, hi)
             ELSE bisect_loop(a, x, lo, mid)
    ELSE lo

bisect_left(a, x) == bisect_loop(a, x, 0, Len(a))

Abs(x) == IF x < 0 THEN -x ELSE x

\* bisect.bisect_right, which test_similarity does not call
RECURSIVE bisect_right_loop(_, _, _, _)
bisect_right_loop(a, x, lo, hi) ==
    IF lo < hi
    THEN LET mid == (lo + hi) \div 2
         IN  IF x < a[mid + 1]
             THEN bisect_right_loop(a, x, lo, mid)
             ELSE bisect_right_loop(a, x, mid + 1, hi)
    ELSE lo

\* sim_prob with the observed score placed after the scores equal to it
sim_prob_right(dist, obs) ==
    LET pos == bisect_right_loop(dist, obs, 0, Len(dist))
    IN  <<Abs(pos - Len(dist)), 1 + Len(dist)>>

\* the probability, as <<numerator, denominator>>; dist is the sorted distribution
sim_prob(dist, obs) ==
    LET pos == bisect_left(dist, obs)
    IN  <<Abs(pos - Len(dist)), 1 + Len(dist)>>

\* random.sample(population, k): k distinct members, in any order
random_sample(population, k) ==
    UNION {Listings(T) : T \in {U \in SUBSET population : Cardinality(U) = k}}

\* [family_hpo[x].get_child_hpo() for x in ids if x in family_hpo]
RECURSIVE child_hpo_of(_)
child_hpo_of(ids) ==
    IF ids = <<>> THEN <<>>
    ELSE IF Head(ids) \in DOMAIN family_hpo
    THEN <<family_hpo[Head(ids)]>> \o child_hpo_of(Tail(ids))
    ELSE child_hpo_of(Tail(ids))

TestReturned(ids, n, kind, val, exc) ==
    [op |-> "test_similarity", inst |-> 1, args |-> <<ids, n>>,
     kind |-> kind, val |-> val, exc |-> exc]

\* the call up to the observed score, from wherever it is made
test_similarity_begin(ids, n) ==
    /\ probands' = ids
    /\ n_sims' = n
    /\ hpo_terms' = child_hpo_of(ids)
    /\ other_probands' = {x \in DOMAIN family_hpo : x \notin Range(ids)}
    /\ distribution' = <<>>
    /\ sampled' = <<>>
    /\ IF Len(hpo_terms') = 1
       THEN /\ ret' = TestReturned(ids, n, "None", 0, "none")
            /\ observed' = 0
            /\ pc' = "done"
            /\ UNCHANGED <<counts_cache, ic_cache>>
       ELSE \E r \in get_proband_similarity(1, Caches, hpo_terms') :
               /\ counts_cache' = r.counts_cache
               /\ ic_cache' = r.ic_cache
               /\ IF r.exc # "none"
                  THEN /\ ret' = TestReturned(ids, n, "raise", 0, r.exc)
                       /\ observed' = 0
                       /\ pc' = "done"
                  ELSE /\ ret' = NoCall
                       /\ observed' = r.val
                       /\ pc' = "sim"
    /\ UNCHANGED <<hpo_counts, total_freq, family_hpo>>

test_similarity_call(ids, n) ==
    /\ pc = "ready"
    /\ test_similarity_begin(ids, n)
    /\ UNCHANGED gene_vars

test_similarity_sim ==
    /\ pc = "sim"
    /\ Len(distribution) < n_sims
    /\ IF Len(probands) > Cardinality(other_probands)
       THEN \* random.sample: "Sample larger than population"
            /\ ret' = TestReturned(probands, n_sims, "raise", 0, "ValueError")
            /\ pc' = "done"
            /\ UNCHANGED <<counts_cache, ic_cache, sampled, distribution>>
       ELSE \E s \in random_sample(other_probands, Len(probands)) :
            \E r \in get_proband_similarity(1, Caches, child_hpo_of(s)) :
               /\ sampled' = s
               /\ counts_cache' = r.counts_cache
               /\ ic_cache' = r.ic_cache
               /\ IF r.exc # "none"
                  THEN /\ ret' = TestReturned(probands, n_sims, "raise", 0, r.exc)
                       /\ pc' = "done"
                       /\ UNCHANGED distribution
                  ELSE /\ distribution' = Append(distribution, r.val)
                       /\ UNCHANGED <<ret, pc>>
    /\ UNCHANGED <<hpo_counts, total_freq, family_hpo>>
    /\ UNCHANGED <<probands, hpo_terms, other_probands, observed, n_sims>>
    /\ UNCHANGED gene_vars

test_similarity_return ==
    /\ pc = "sim"
    /\ Len(distribution) = n_sims
    /\ distribution' = sorted(distribution)
    /\ ret' = TestReturned(probands, n_sims, "value", sim_prob(distribution', observed), "none")
    /\ pc' = "done"
    /\ UNCHANGED <<hpo_counts, total_freq, counts_cache, ic_cache, family_hpo>>
    /\ UNCHANGED <<probands, hpo_terms, other_probands, observed, n_sims, sampled>>
    /\ UNCHANGED gene_vars

\* the lists of proband ids given to test_similarity: analyse_genes calls it
\* for the genes with more than one proband
RECURSIVE SeqsUpTo(_, _)
SeqsUpTo(S, n) ==
    IF n = 0 THEN {<<>>}
    ELSE LET shorter == SeqsUpTo(S, n - 1)
         IN  shorter \cup {Append(q, x) : q \in shorter, x \in S}

ProbandLists == {ids \in SeqsUpTo(ProbandIds, MaxGroup) : Len(ids) > 1}

(***************************************************************************)
(* Spec: a run that tallies the population, then tests groups of probands  *)
(***************************************************************************)
Next ==
    \/ main_tally
    \/ \E ids \in ProbandLists, n \in 1..MaxSims : test_similarity_call(ids, n)
    \/ test_similarity_sim
    \/ test_similarity_return

Spec == InitMain /\ [][Next]_vars

(***************************************************************************)
(* analyse_genes (src/hpo_similarity.py).  A gene identifier is a string,  *)
(* here the sequence of its character codes; sorted() orders strings       *)
(* character by character, a proper prefix before the longer string.       *)
(***************************************************************************)
\* a < b for two strings
RECURSIVE LexLess(_, _)
LexLess(a, b) ==
    IF b = <<>> THEN FALSE
    ELSE IF a = <<>> THEN TRUE
    ELSE IF Head(a) < Head(b) THEN TRUE
    ELSE IF Head(b) < Head(a) THEN FALSE
    ELSE LexLess(Tail(a), Tail(b))

\* the keys of the dict from the last to the first: a loop without sorted()
RECURSIVE unsorted_genes(_)
unsorted_genes(S) ==
    IF S = {} THEN <<>>
    ELSE LET last == CHOOSE x \in S : \A y \in S \ {x} : LexLess(y, x)
         IN  <<last>> \o unsorted_genes(S \ {last})

\* sorted(probands_by_gene): the keys of the dict, ascending
RECURSIVE sorted_genes(_)
sorted_genes(S) ==
    IF S = {} THEN <<>>
    ELSE LET first == CHOOSE x \in S : \A y \in S \ {x} : LexLess(x, y)
         IN  <<first>> \o sorted_genes(S \ {first})

\* the gene identifiers "A", "AB" and "B"
GeneIds == {<<1>>, <<1, 2>>, <<2>>}

\* the probands of a gene: one proband, two probands of which one has no HPO
\* terms recorded, two probands with terms, two probands without
GeneLists == {<<"p1">>, <<"p1", Missing>>, <<"p1", "p2">>, <<Missing, Missing>>}

\* load_variants: every mapping of some of the genes to a list of probands
GeneMaps == UNION {[G -> GeneLists] : G \in SUBSET GeneIds}

Header == <<"hgnc", "hpo_similarity_p_value">>

\* open(output_path, "w"); the header; the loop starts over the sorted genes
analyse_genes_open ==
    /\ pc = "ready"
    /\ output' = <<Header>>
    /\ genes' = sorted_genes(DOMAIN probands_by_gene)
    /\ pc' = "genes"
    /\ UNCHANGED <<hpo_counts, total_freq, counts_cache, ic_cache, family_hpo, ret>>
    /\ UNCHANGED test_vars
    /\ UNCHANGED probands_by_gene

\* the loop takes the next gene: with more than one proband it calls
\* test_similarity (n_sims at its default, MaxSims here), otherwise p_value
\* stays "NA" and the loop continues
analyse_genes_gene ==
    /\ pc = "genes"
    /\ genes # <<>>
    /\ LET gene == Head(genes)
       IN  IF Len(probands_by_gene[gene]) > 1
           THEN /\ test_similarity_begin(probands_by_gene[gene], MaxSims)
                /\ UNCHANGED gene_vars
           ELSE /\ genes' = Tail(genes)
                /\ UNCHANGED <<hpo_counts, total_freq, counts_cache, ic_cache,
                               family_hpo, pc, ret>>
                /\ UNCHANGED test_vars
                /\ UNCHANGED <<probands_by_gene, output>>

\* test_similarity is back: an exception leaves analyse_genes, None becomes
\* "NA" and the loop continues, a p-value is written
analyse_genes_result ==
    /\ pc = "done"
    /\ genes # <<>>
    /\ ret.op = "test_similarity"
    /\ IF ret.kind = "raise"
       THEN /\ pc' = "failed"
            /\ UNCHANGED <<genes, output>>
       ELSE IF ret.kind = "None"
       THEN /\ pc' = "genes"
            /\ genes' = Tail(genes)
            /\ UNCHANGED output
       ELSE /\ pc' = "genes"
            /\ genes' = Tail(genes)
            /\ output' = Append(output, <<Head(genes), ret.val>>)
    /\ UNCHANGED <<hpo_counts, total_freq, counts_cache, ic_cache, family_hpo, ret>>
    /\ UNCHANGED test_vars
    /\ UNCHANGED probands_by_gene

\* the loop is over: output.close()
analyse_genes_close ==
    /\ pc = "genes"
    /\ genes = <<>>
    /\ pc' = "closed"
    /\ UNCHANGED <<hpo_counts, total_freq, counts_cache, ic_cache, family_hpo, ret>>
    /\ UNCHANGED test_vars
    /\ UNCHANGED gene_vars

(***************************************************************************)
(* SpecGenes: a run of main over a population and the variants of some     *)
(* genes                                                                   *)
(***************************************************************************)
InitGenes ==
    /\ InitInstances
    /\ InitTest
    /\ family_hpo \in Populations
    /\ probands_by_gene \in GeneMaps
    /\ genes = <<>>
    /\ output = <<>>
    /\ pc = "main"
    /\ ret = NoCall

NextGenes ==
    \/ main_tally
    \/ analyse_genes_open
    \/ analyse_genes_gene
    \/ test_similarity_sim
    \/ test_similarity_return
    \/ analyse_genes_result
    \/ analyse_genes_close

SpecGenes == InitGenes /\ [][NextGenes]_vars

(***************************************************************************)
(* SpecRank: the rank of an observed score in a distribution, for every    *)
(* distribution and observed score within the bounds                       *)
(***************************************************************************)
InitRank ==
    /\ InitInstances
    /\ InitAnalysis
    /\ family_hpo = EmptyMap
    /\ probands = <<>>
    /\ hpo_terms = <<>>
    /\ other_probands = {}
    /\ sampled = <<>>
    /\ distribution \in SeqsUpTo(0..MaxScore, MaxLen)
    /\ n_sims = Len(distribution)
    /\ observed \in 0..MaxScore
    /\ pc = "sim"
    /\ ret = NoCall

NextRank == test_similarity_return

SpecRank == InitRank /\ [][NextRank]_vars

(***************************************************************************)
(* Properties                                                              *)
(***************************************************************************)
Called(op) == ret.op = op

AbsentTerms(list) == {list[k] : k \in DOMAIN list} \ GraphTerms

\* C1: after any sequence of add_hpo calls on an instance, total_freq is the
\* sum of the values of hpo_counts
C1_TotalIsSumOfCounts ==
    \A i \in Inst : total_freq[i] = SumCounts(hpo_counts[i], DOMAIN hpo_counts[i])

\* C2: get_max_ic and get_score_for_pair return a score, and do not raise,
\* when one of the terms they are given is absent from the graph
C2_AbsentTermDiscounted ==
    /\ (Called("get_max_ic") /\ AbsentTerms(ret.args) # {}) => ret.kind = "value"
    /\ (Called("get_score_for_pair")
          /\ AbsentTerms(ret.args[1]) \cup AbsentTerms(ret.args[2]) # {})
       => ret.kind = "value"

\* C3: with fewer than 2 of the observed ids in the population, test_similarity
\* returns None and neither scores nor samples
C3_TooFewIsNone ==
    (pc \in {"sim", "done"} /\ Len(hpo_terms) < 2)
    => (pc = "done" /\ ret.kind = "None" /\ sampled = <<>> /\ distribution = <<>>)

\* C4: a drawn group has as many probands as the observed group that was
\* scored (here: an observed group of at least 2, which can be scored)
C4_SampleSizeIsObservedSize ==
    (pc \in {"sim", "done"} /\ Len(hpo_terms) >= 2 /\ sampled # <<>>)
    => Len(sampled) = Len(hpo_terms)

\* the number of simulated scores strictly less than the observed score
LessThanObserved == Cardinality({k \in DOMAIN distribution : distribution[k] < observed})

\* C5: test_similarity returns (n - k)/(n + 1), k the number of simulated
\* scores strictly less than the observed score, which is in [0, n/(n+1)]
C5_RankProbability ==
    (Called("test_similarity") /\ ret.kind = "value")
    => /\ ret.val = <<Len(distribution) - LessThanObserved, Len(distribution) + 1>>
       /\ ret.val[1] >= 0
       /\ ret.val[1] =< Len(distribution)
       /\ Len(distribution) = n_sims

\* C5 witness: a probability was returned for a distribution that holds a
\* score less than the observed one and scores equal to it
C5_Witness ==
    /\ Called("test_similarity") /\ ret.kind = "value"
    /\ \E j, k \in DOMAIN distribution :
          distribution[j] < observed /\ distribution[k] = observed
    /\ \E k \in DOMAIN distribution : distribution[k] > observed

\* C6: the observed score of test_similarity, get_proband_similarity of
\* src/hpo_similarity.py, is the sum of the pair scores over positions x < y
C6_EachPairOnce ==
    pc = "sim"
    => \A r \in get_scores_get_proband_similarity(1, Caches, hpo_terms) :
          r.exc = "none" /\ r.val = observed

\* C7: with both instances tallied, the value calculate_information_content
\* returns on an instance is the value it returns there with no query made on
\* any instance before (own: that value, where the call returns one)
C7_CachesOfOneInstance ==
    LET own == calculate_information_content(ret.inst, Out(EmptyMap, EmptyMap, 0, "none"),
                                             ret.args[1])
    IN  (Called("calculate_information_content") /\ ret.kind = "value"
            /\ (\A j \in Inst : total_freq[j] > 0) /\ own.exc = "none")
        => ret.val = own.val

\* C8: after the build phase get_term_count(root) is total_freq and
\* calculate_information_content(root) is 0
C8_RootCoversAll ==
    /\ (Called("get_term_count") /\ ret.args = <<Root>>) => ret.val = total_freq[1]
    /\ (Called("calculate_information_content") /\ ret.args = <<Root>>)
       => (ret.kind = "value" /\ ret.val = 0)

\* C9: after a build phase that leaves total_freq > 0,
\* calculate_information_content returns a value >= 0 for every term of the graph
C9_InformationContentDefined ==
    (Called("calculate_information_content") /\ ret.args[1] \in GraphTerms
        /\ total_freq[1] > 0)
    => (ret.kind = "value" /\ ret.val >= 0)

\* C10: get_score_for_pair returns a score for two non-empty lists (here: of
\* terms that were tallied), also when the maxIC of a term pair is 0
C10_GeomeanGuardsZero ==
    (Called("get_score_for_pair")
        /\ ret.args[1] # <<>> /\ ret.args[2] # <<>>
        /\ Range(ret.args[1]) \cup Range(ret.args[2]) \subseteq DOMAIN hpo_counts[1])
    => ret.kind = "value"

\* the genes of the rows written so far, in the order of the rows
RowGenes == [k \in 1..(Len(output) - 1) |-> output[k + 1][1]]

\* the genes with more than one listed proband whose test does not return
\* None: None is returned when exactly one of the listed probands is in the
\* population
ComputableGenes ==
    {g \in DOMAIN probands_by_gene :
        /\ Len(probands_by_gene[g]) > 1
        /\ Cardinality({k \in DOMAIN probands_by_gene[g] :
                           probands_by_gene[g][k] \in DOMAIN family_hpo}) # 1}

\* C11: the rows analyse_genes writes are rows of genes with a computable
\* p-value (more than one listed proband, a test result that is not None), in
\* ascending order of gene identifier and so each gene at most once; when
\* analyse_genes returns, every such gene has its row
C11_RowsAreComputableGenes ==
    /\ \A i, j \in DOMAIN RowGenes : i < j => LexLess(RowGenes[i], RowGenes[j])
    /\ Range(RowGenes) \subseteq ComputableGenes
    /\ pc = "closed" => Range(RowGenes) = ComputableGenes

\* analyse_genes has returned after writing two rows and omitting a gene
C11_Witness ==
    /\ pc = "closed"
    /\ Len(output) = 3
    /\ Cardinality(DOMAIN probands_by_gene) = 3
    /\ \E i, j \in DOMAIN RowGenes : i < j

\* the subtree count of a term, from the hpo_counts of the instance as they are
SubtreeCount(term) ==
    SumCounts(hpo_counts[1], (get_subterms(term) \cup {term}) \cap DOMAIN hpo_counts[1])

\* every cached count and information content is the one of the current tallies
CachesCurrent ==
    /\ \A t \in DOMAIN counts_cache : counts_cache[t] = SubtreeCount(t)
    /\ \A t \in DOMAIN ic_cache :
          /\ SubtreeCount(t) > 0
          /\ ic_cache[t] = NegLog(SubtreeCount(t), total_freq[1])

\* C12 as stated: after add_hpo and calculate_information_content calls on
\* one instance in any order, every entry of counts_cache is the subtree count
\* of the current hpo_counts and every entry of ic_cache is -log(that count /
\* the current total_freq)
C12_NoStaleCache == CachesCurrent

\* C12: after add_hpo and calculate_information_content calls on one
\* instance in which no add_hpo follows a calculate_information_content,
\* every entry of counts_cache is the subtree count of the current hpo_counts
\* and every entry of ic_cache is -log(that count / the current total_freq)
C12_CurrentWhileFrozen == pc # "late" => CachesCurrent

\* a query after the tallies has cached a non-zero information content of a
\* term whose count comes from a subterm
C12_Witness ==
    /\ pc = "query"
    /\ \E t \in DOMAIN ic_cache :
          /\ ic_cache[t] > 0
          /\ get_subterms(t) \cap DOMAIN hpo_counts[1] # {}

====
